---- MODULE Spec2Model ----
(***************************************************************************)
(* confusion-metrics (src/src/index.ts): confusion counts from paired      *)
(* label sequences, and the derived confusion-matrix metrics.              *)
(*                                                                         *)
(* The three exported functions are pure.  Init draws their arguments from *)
(* bounded sets; one action per exported function applies it to the drawn  *)
(* arguments and records what the call produced (a returned value or a     *)
(* thrown error).                                                          *)
(*                                                                         *)
(* A JavaScript number is modelled exactly: NaN, +/-Infinity, or the real  *)
(* (n/d) * sqrt(rn/rd), a rational when rn = rd = 1 (rationals are kept in *)
(* lowest terms, so equal rationals are equal records).  Rounding of       *)
(* IEEE-754 doubles is not modelled: sums, products and quotients are      *)
(* exact.                                                                  *)
(***************************************************************************)
EXTENDS Integers, Sequences, FiniteSets

VARIABLES predicted, actual, positiveValue, counts,
          countsCall, metricsCall, labelsCall

vars == <<predicted, actual, positiveValue, counts,
          countsCall, metricsCall, labelsCall>>

(***************************************************************************)
(* Bounds of the model.                                                    *)
(***************************************************************************)
MaxLen == 2
MaxCount == 8

(***************************************************************************)
(* JavaScript numbers.                                                     *)
(***************************************************************************)
Abs(i) == IF i < 0 THEN 0 - i ELSE i

Sign(i) == IF i < 0 THEN 0 - 1 ELSE IF i = 0 THEN 0 ELSE 1

RECURSIVE GCD(_, _)
GCD(a, b) == IF b = 0 THEN a ELSE GCD(b, a % b)

RECURSIVE RootFrom(_, _)
RootFrom(n, r) == IF r * r >= n THEN r ELSE RootFrom(n, r + 1)

\* the least r with r*r >= n
Root(n) == RootFrom(n, 0)

IsSquare(n) == Root(n) * Root(n) = n

NaN == [k |-> "nan", n |-> 0, d |-> 1, rn |-> 1, rd |-> 1]

Infinity(s) == [k |-> "inf", n |-> s, d |-> 1, rn |-> 1, rd |-> 1]

\* the rational n/d (d # 0) in lowest terms with a positive denominator
Rat(n, d) ==
    LET g == GCD(Abs(n), Abs(d))
        s == Sign(d)
    IN  [k |-> "num", n |-> (s * n) \div g, d |-> Abs(d) \div g, rn |-> 1, rd |-> 1]

Num(i) == Rat(i, 1)

\* (n/d) * sqrt(rn/rd), with d > 0, rn > 0, rd > 0; a rational when the
\* radicand is the square of one
Surd(n, d, rn, rd) ==
    IF n = 0 THEN Num(0)
    ELSE LET g == GCD(rn, rd)
             a == rn \div g
             b == rd \div g
         IN  IF IsSquare(a) /\ IsSquare(b)
             THEN Rat(n * Root(a), d * Root(b))
             ELSE LET q == Rat(n, d)
                  IN  [k |-> "num", n |-> q.n, d |-> q.d, rn |-> a, rd |-> b]

IsNaN(x) == x.k = "nan"

IsInfinite(x) == x.k = "inf"

IsFinite(x) == x.k = "num"

IsRational(x) == x.k = "num" /\ x.rn = 1 /\ x.rd = 1

\* x === 0
IsZero(x) == x.k = "num" /\ x.n = 0

SignOf(x) == IF x.k = "nan" THEN 0 ELSE Sign(x.n)

\* x + y; the operands the program adds are NaN, infinite or rational
Add(x, y) ==
    IF IsNaN(x) \/ IsNaN(y) THEN NaN
    ELSE IF IsInfinite(x) /\ IsInfinite(y)
         THEN IF x.n = y.n THEN x ELSE NaN
    ELSE IF IsInfinite(x) THEN x
    ELSE IF IsInfinite(y) THEN y
    ELSE Rat(x.n * y.d + y.n * x.d, x.d * y.d)

Neg(x) ==
    IF IsNaN(x) THEN NaN
    ELSE [k |-> x.k, n |-> 0 - x.n, d |-> x.d, rn |-> x.rn, rd |-> x.rd]

\* x - y
Sub(x, y) == Add(x, Neg(y))

\* x * y
Mul(x, y) ==
    IF IsNaN(x) \/ IsNaN(y) THEN NaN
    ELSE IF IsInfinite(x) \/ IsInfinite(y)
         THEN IF IsZero(x) \/ IsZero(y) THEN NaN
              ELSE Infinity(SignOf(x) * SignOf(y))
    ELSE Surd(x.n * y.n, x.d * y.d, x.rn * y.rn, x.rd * y.rd)

\* x / y, the JavaScript operator: a zero divisor gives NaN or an infinity
Slash(x, y) ==
    IF IsNaN(x) \/ IsNaN(y) THEN NaN
    ELSE IF IsInfinite(x)
         THEN IF IsInfinite(y) THEN NaN
              ELSE Infinity(x.n * (IF y.n < 0 THEN 0 - 1 ELSE 1))
    ELSE IF IsInfinite(y) THEN Num(0)
    ELSE IF IsZero(y)
         THEN IF IsZero(x) THEN NaN ELSE Infinity(SignOf(x))
    ELSE Surd(x.n * y.d * Sign(y.n), x.d * Abs(y.n), x.rn * y.rd, x.rd * y.rn)

\* Math.sqrt(x); the program takes the root of NaN or of a rational
Sqrt(x) ==
    IF IsNaN(x) THEN NaN
    ELSE IF IsInfinite(x) THEN (IF x.n > 0 THEN x ELSE NaN)
    ELSE IF x.n < 0 THEN NaN
    ELSE IF IsZero(x) THEN Num(0)
    ELSE Surd(1, 1, x.n, x.d)

\* -1 <= x <= 1 for a finite x: x^2 <= 1
AbsAtMostOne(x) == x.n * x.n * x.rn <= x.d * x.d * x.rd

\* 0 <= x <= 1 for a finite x
InUnitInterval(x) == x.n >= 0 /\ AbsAtMostOne(x)

(***************************************************************************)
(* divide                                                                  *)
(***************************************************************************)
\* divide without the test for a zero denominator
divide_unguarded(numerator, denominator) == Slash(numerator, denominator)

divide(numerator, denominator) ==
    IF IsZero(denominator) THEN NaN ELSE Slash(numerator, denominator)

(***************************************************************************)
(* computeMetricsFromCounts                                                *)
(***************************************************************************)
Returned(v) == [status |-> "returned", value |-> v]

Threw(msg) == [status |-> "threw", value |-> msg]

NotCalled == [status |-> "none", value |-> "none"]

\* positive taken over the predicted positives
Positive_predicted(c) == c.tp + c.fp

\* positive = tp + fn
Positive(c) == c.tp + c.fn

\* negative taken over the predicted negatives
Negative_predicted(c) == c.tn + c.fn

\* negative = tn + fp
Negative(c) == c.tn + c.fp

\* dor with the sum of fp and fn for their product
Dor_sum(c) == divide(Num(c.tp * c.tn), Num(c.fp + c.fn))

\* dor = divide(tp * tn, fp * fn)
Dor(c) == divide(Num(c.tp * c.tn), Num(c.fp * c.fn))

\* mcc with the sum of the two products for their difference
Mcc_sum(c) ==
    divide(Num(c.tp * c.tn + c.fp * c.fn),
           Sqrt(Num((c.tp + c.fp) * (c.tp + c.fn) * (c.tn + c.fp) * (c.tn + c.fn))))

\* mcc = divide(tp*tn - fp*fn, Math.sqrt((tp+fp)*(tp+fn)*(tn+fp)*(tn+fn)))
Mcc(c) ==
    divide(Num(c.tp * c.tn - c.fp * c.fn),
           Sqrt(Num((c.tp + c.fp) * (c.tp + c.fn) * (c.tn + c.fp) * (c.tn + c.fn))))

\* the call computeMetricsFromCounts(c), c a record of four integers
computeMetricsFromCounts(c) ==
    LET tp == c.tp
        tn == c.tn
        fp == c.fp
        fn == c.fn
        positive == Positive(c)
        negative == Negative(c)
        total == positive + negative
        tpr == divide(Num(tp), Num(positive))
        fnr == divide(Num(fn), Num(positive))
        tnr == divide(Num(tn), Num(negative))
        fpr == divide(Num(fp), Num(negative))
        ppv == divide(Num(tp), Num(tp + fp))
        npv == divide(Num(tn), Num(tn + fn))
        prevalence == divide(Num(positive), Num(total))
        accuracy == divide(Num(tp + tn), Num(total))
        fdr == Sub(Num(1), ppv)
        for == Sub(Num(1), npv)
        markedness == Sub(Add(ppv, npv), Num(1))
        lrPlus == divide(tpr, fpr)
        lrMinus == divide(fnr, tnr)
        dor == Dor(c)
        balancedAccuracy == Slash(Add(tpr, tnr), Num(2))
        f1 == divide(Num(2 * tp), Num(2 * tp + fp + fn))
        fm == Sqrt(Mul(ppv, tpr))
        mcc == Mcc(c)
        ts == divide(Num(tp), Num(tp + fp + fn))
    IN  Returned([tp |-> tp, tn |-> tn, fp |-> fp, fn |-> fn,
                  total |-> total, prevalence |-> prevalence,
                  tpr |-> tpr, fpr |-> fpr, fnr |-> fnr, tnr |-> tnr,
                  ppv |-> ppv, npv |-> npv,
                  lrPlus |-> lrPlus, lrMinus |-> lrMinus,
                  accuracy |-> accuracy, fdr |-> fdr, for |-> for,
                  markedness |-> markedness, dor |-> dor,
                  balancedAccuracy |-> balancedAccuracy, f1 |-> f1, fm |-> fm,
                  mcc |-> mcc, ts |-> ts])

(***************************************************************************)
(* Labels: the JavaScript values the label sequences hold.  A label is a   *)
(* record of its typeof (t) and its value: b for a boolean, n and nan for  *)
(* a number, s (a sequence of characters) for a string.  null has typeof   *)
(* "object".                                                               *)
(***************************************************************************)
Bool(b) == [t |-> "boolean", b |-> b, n |-> 0, nan |-> FALSE, s |-> <<>>]

Number(n) == [t |-> "number", b |-> FALSE, n |-> n, nan |-> FALSE, s |-> <<>>]

NumberNaN == [t |-> "number", b |-> FALSE, n |-> 0, nan |-> TRUE, s |-> <<>>]

Str(s) == [t |-> "string", b |-> FALSE, n |-> 0, nan |-> FALSE, s |-> s]

Null == [t |-> "object", b |-> FALSE, n |-> 0, nan |-> FALSE, s |-> <<>>]

Undefined == [t |-> "undefined", b |-> FALSE, n |-> 0, nan |-> FALSE, s |-> <<>>]

\* typeof value
TypeOf(value) == value.t

\* x === y
StrictEquals(x, y) ==
    /\ x.t = y.t
    /\ CASE x.t = "boolean" -> x.b = y.b
         [] x.t = "number" -> ~x.nan /\ ~y.nan /\ x.n = y.n
         [] x.t = "string" -> x.s = y.s
         [] OTHER -> TRUE

UpperCase == <<"A", "B", "C", "D", "E", "F", "G", "H", "I", "J", "K", "L", "M",
               "N", "O", "P", "Q", "R", "S", "T", "U", "V", "W", "X", "Y", "Z">>

LowerCase == <<"a", "b", "c", "d", "e", "f", "g", "h", "i", "j", "k", "l", "m",
               "n", "o", "p", "q", "r", "s", "t", "u", "v", "w", "x", "y", "z">>

LowerChar(ch) ==
    IF \E i \in 1..26 : UpperCase[i] = ch
    THEN LowerCase[CHOOSE i \in 1..26 : UpperCase[i] = ch]
    ELSE ch

\* s.toLowerCase()
toLowerCase(s) == [i \in 1..Len(s) |-> LowerChar(s[i])]

\* isPositive comparing strings with "true" without lowering their case
isPositive_caseSensitive(value, pv) ==
    IF ~StrictEquals(pv, Undefined) THEN StrictEquals(value, pv)
    ELSE IF TypeOf(value) = "boolean" THEN StrictEquals(value, Bool(TRUE))
    ELSE IF TypeOf(value) = "number" THEN StrictEquals(value, Number(1))
    ELSE IF TypeOf(value) = "string"
         THEN \/ value.s = <<"1">>
              \/ value.s = <<"t", "r", "u", "e">>
    ELSE FALSE

\* isPositive(value) of a call whose third argument is pv
isPositive(value, pv) ==
    IF ~StrictEquals(pv, Undefined) THEN StrictEquals(value, pv)
    ELSE IF TypeOf(value) = "boolean" THEN StrictEquals(value, Bool(TRUE))
    ELSE IF TypeOf(value) = "number" THEN StrictEquals(value, Number(1))
    ELSE IF TypeOf(value) = "string"
         THEN \/ value.s = <<"1">>
              \/ toLowerCase(value.s) = <<"t", "r", "u", "e">>
    ELSE FALSE

LengthMismatch == "predicted and actual must have the same length"

\* Classify with the fp and fn branches exchanged
Classify_swapped(acc, p, a) ==
    IF p /\ a THEN [acc EXCEPT !.tp = @ + 1]
    ELSE IF p /\ ~a THEN [acc EXCEPT !.fn = @ + 1]
    ELSE IF ~p /\ a THEN [acc EXCEPT !.fp = @ + 1]
    ELSE [acc EXCEPT !.tn = @ + 1]

\* one iteration of the loop: index i is counted in one bucket of acc
Classify(acc, p, a) ==
    IF p /\ a THEN [acc EXCEPT !.tp = @ + 1]
    ELSE IF p /\ ~a THEN [acc EXCEPT !.fp = @ + 1]
    ELSE IF ~p /\ a THEN [acc EXCEPT !.fn = @ + 1]
    ELSE [acc EXCEPT !.tn = @ + 1]

\* the loop from index i (1-based) on
RECURSIVE CountFrom(_, _, _, _, _)
CountFrom(i, acc, pred, act, pv) ==
    IF i > Len(pred) THEN acc
    ELSE CountFrom(i + 1,
                   Classify(acc, isPositive(pred[i], pv), isPositive(act[i], pv)),
                   pred, act, pv)

\* computeCountsFromLabels rejecting only a longer predicted
computeCountsFromLabels_longerOnly(pred, act, pv) ==
    IF Len(pred) > Len(act) THEN Threw(LengthMismatch)
    ELSE Returned(CountFrom(1, [tp |-> 0, tn |-> 0, fp |-> 0, fn |-> 0],
                            pred, act, pv))

\* the call computeCountsFromLabels(pred, act, pv)
computeCountsFromLabels(pred, act, pv) ==
    IF Len(pred) # Len(act) THEN Threw(LengthMismatch)
    ELSE Returned(CountFrom(1, [tp |-> 0, tn |-> 0, fp |-> 0, fn |-> 0],
                            pred, act, pv))

\* computeMetricsFromLabels not passing positiveValue on
computeMetricsFromLabels_noPositiveValue(pred, act, pv) ==
    LET c == computeCountsFromLabels(pred, act, Undefined)
    IN  IF c.status = "threw" THEN c ELSE computeMetricsFromCounts(c.value)

\* the call computeMetricsFromLabels(pred, act, pv)
computeMetricsFromLabels(pred, act, pv) ==
    LET c == computeCountsFromLabels(pred, act, pv)
    IN  IF c.status = "threw" THEN c ELSE computeMetricsFromCounts(c.value)

(***************************************************************************)
(* Arguments of the calls.                                                 *)
(*                                                                         *)
(* The label sequences are Array<T>: the elements and positiveValue of one *)
(* call are drawn from one label type T.                                   *)
(***************************************************************************)
Booleans == {Bool(TRUE), Bool(FALSE)}

Numbers == {Number(1), Number(0), NumberNaN}

Strings == {Str(<<"1">>), Str(<<"t", "r", "u", "e">>),
            Str(<<"T", "r", "U", "e">>), Str(<<"p", "o", "s">>)}

Objects == {Null, Undefined}

Mixed == {Bool(TRUE), Number(1), Str(<<"p", "o", "s">>), Str(<<"T", "R", "U", "E">>)}

LabelTypes == {Booleans, Numbers, Strings, Objects, Mixed}

\* the sequences over S of length at most n
SeqUpTo(S, n) == UNION {[1..m -> S] : m \in 0..n}

CountsRecords == [tp : 0..MaxCount, tn : 0..MaxCount, fp : 0..MaxCount, fn : 0..MaxCount]

NoCounts == [tp |-> 0, tn |-> 0, fp |-> 0, fn |-> 0]

NoCalls ==
    /\ countsCall = NotCalled
    /\ metricsCall = NotCalled
    /\ labelsCall = NotCalled

\* a caller holding two label sequences and a positive value
InitLabels ==
    /\ \E T \in LabelTypes :
          /\ predicted \in SeqUpTo(T, MaxLen)
          /\ actual \in SeqUpTo(T, MaxLen)
          /\ positiveValue \in T \cup {Undefined}
    /\ counts = NoCounts
    /\ NoCalls

\* a caller holding a counts record
InitCounts ==
    /\ predicted = <<>>
    /\ actual = <<>>
    /\ positiveValue = Undefined
    /\ counts \in CountsRecords
    /\ NoCalls

CallComputeCountsFromLabels ==
    /\ countsCall.status = "none"
    /\ countsCall' = computeCountsFromLabels(predicted, actual, positiveValue)
    /\ UNCHANGED <<predicted, actual, positiveValue, counts, metricsCall, labelsCall>>

CallComputeMetricsFromLabels ==
    /\ labelsCall.status = "none"
    /\ labelsCall' = computeMetricsFromLabels(predicted, actual, positiveValue)
    /\ UNCHANGED <<predicted, actual, positiveValue, counts, countsCall, metricsCall>>

CallComputeMetricsFromCounts ==
    /\ metricsCall.status = "none"
    /\ metricsCall' = computeMetricsFromCounts(counts)
    /\ UNCHANGED <<predicted, actual, positiveValue, counts, countsCall, labelsCall>>

NextLabels ==
    \/ CallComputeCountsFromLabels
    \/ CallComputeMetricsFromLabels

NextCounts == CallComputeMetricsFromCounts

SpecLabels == InitLabels /\ [][NextLabels]_vars

SpecCounts == InitCounts /\ [][NextCounts]_vars

(***************************************************************************)
(* Properties of computeCountsFromLabels and computeMetricsFromLabels,     *)
(* checked under SpecLabels.                                               *)
(***************************************************************************)
\* the call threw the error with message msg
ThrewError(call, msg) == call.status = "threw" /\ call.value = msg

\* the call returned the value v
ReturnedValue(call, v) == call.status = "returned" /\ call.value = v

Indices == 1..Len(predicted)

PredPos(i) == isPositive(predicted[i], positiveValue)

ActPos(i) == isPositive(actual[i], positiveValue)

\* the four buckets, as sets of indices
BucketTP == {i \in Indices : PredPos(i) /\ ActPos(i)}

BucketFP == {i \in Indices : PredPos(i) /\ ~ActPos(i)}

BucketFN == {i \in Indices : ~PredPos(i) /\ ActPos(i)}

BucketTN == {i \in Indices : ~PredPos(i) /\ ~ActPos(i)}

\* C1: computeCountsFromLabels on equal-length sequences returns, for every
\* positivity rule, tp = the number of indices with predicted and actual both
\* positive, fp = predicted positive and actual not, fn = predicted not and
\* actual positive, tn = neither; each index is in exactly one bucket, so the
\* four counts sum to the length (all 0 for empty sequences).
C1_BucketCounts ==
    (countsCall.status = "returned") =>
        /\ countsCall.value.tp = Cardinality(BucketTP)
        /\ countsCall.value.fp = Cardinality(BucketFP)
        /\ countsCall.value.fn = Cardinality(BucketFN)
        /\ countsCall.value.tn = Cardinality(BucketTN)
        /\ countsCall.value.tp + countsCall.value.tn
             + countsCall.value.fp + countsCall.value.fn = Len(predicted)
        /\ (predicted = <<>>) => ReturnedValue(countsCall, NoCounts)

C1_Witness ==
    /\ countsCall.status = "returned"
    /\ Len(predicted) = 2
    /\ countsCall.value.fp = 1
    /\ countsCall.value.fn = 1

\* C2: computeCountsFromLabels throws the length-mismatch error, and returns
\* no counts, exactly when the lengths of predicted and actual differ, whatever
\* the elements and positiveValue are; with equal lengths it returns.
C2_LengthMismatch ==
    (countsCall.status # "none") =>
        /\ (Len(predicted) # Len(actual)) => ThrewError(countsCall, LengthMismatch)
        /\ (Len(predicted) = Len(actual)) => (countsCall.status = "returned")

C2_Witness ==
    /\ ThrewError(countsCall, LengthMismatch)
    /\ Len(predicted) = 1
    /\ Len(actual) = 2
    /\ positiveValue # Undefined

\* the sixteen spellings of "true" in upper and lower case
TrueSpellings ==
    {sp \in [1..4 -> {"t", "T", "r", "R", "u", "U", "e", "E"}] :
        /\ sp[1] \in {"t", "T"}
        /\ sp[2] \in {"r", "R"}
        /\ sp[3] \in {"u", "U"}
        /\ sp[4] \in {"e", "E"}}

\* the positivity rule as the specification states it
RulePositive(value) ==
    IF positiveValue # Undefined
    THEN value = positiveValue /\ ~(value.t = "number" /\ value.nan)
    ELSE CASE value.t = "boolean" -> value.b
           [] value.t = "number" -> ~value.nan /\ value.n = 1
           [] value.t = "string" -> value.s = <<"1">> \/ value.s \in TrueSpellings
           [] OTHER -> FALSE

\* C3: the counts are those of the stated positivity rule applied to each
\* element of both sequences: with positiveValue supplied an element is
\* positive iff it strictly equals positiveValue; without it a boolean is
\* positive iff true, a number iff 1, a string iff "1" or "true" in any case,
\* and any other value is negative.
C3_PositivityRule ==
    (countsCall.status = "returned") =>
        /\ countsCall.value.tp =
             Cardinality({i \in Indices :
                 RulePositive(predicted[i]) /\ RulePositive(actual[i])})
        /\ countsCall.value.fp =
             Cardinality({i \in Indices :
                 RulePositive(predicted[i]) /\ ~RulePositive(actual[i])})
        /\ countsCall.value.fn =
             Cardinality({i \in Indices :
                 ~RulePositive(predicted[i]) /\ RulePositive(actual[i])})
        /\ countsCall.value.tn =
             Cardinality({i \in Indices :
                 ~RulePositive(predicted[i]) /\ ~RulePositive(actual[i])})

C3_Witness ==
    /\ countsCall.status = "returned"
    /\ positiveValue = Undefined
    /\ predicted = <<Str(<<"T", "r", "U", "e">>), Str(<<"p", "o", "s">>)>>
    /\ actual = <<Str(<<"1">>), Str(<<"t", "r", "u", "e">>)>>
    /\ countsCall.value = [tp |-> 1, tn |-> 0, fp |-> 0, fn |-> 1]

\* C8: computeMetricsFromLabels throws the length-mismatch error exactly when
\* the lengths differ and otherwise returns the metrics of the classifier's
\* counts: its tp, tn, fp, fn are the bucket sizes, its total is the sequence
\* length, and it agrees with computeCountsFromLabels called on the same
\* arguments followed by computeMetricsFromCounts.
C8_Facade ==
    (labelsCall.status # "none") =>
        /\ (Len(predicted) # Len(actual)) => ThrewError(labelsCall, LengthMismatch)
        /\ (Len(predicted) = Len(actual)) =>
              /\ labelsCall.status = "returned"
              /\ labelsCall.value.tp = Cardinality(BucketTP)
              /\ labelsCall.value.fp = Cardinality(BucketFP)
              /\ labelsCall.value.fn = Cardinality(BucketFN)
              /\ labelsCall.value.tn = Cardinality(BucketTN)
              /\ labelsCall.value.total = Len(predicted)
        /\ (countsCall.status = "threw") => ThrewError(labelsCall, countsCall.value)
        /\ (countsCall.status = "returned") =>
              ReturnedValue(labelsCall, computeMetricsFromCounts(countsCall.value).value)

C8_Witness ==
    /\ labelsCall.status = "returned"
    /\ countsCall.status = "returned"
    /\ positiveValue = Str(<<"p", "o", "s">>)
    /\ labelsCall.value.total = 2
    /\ labelsCall.value.tp = 1
    /\ labelsCall.value.fp = 1

(***************************************************************************)
(* Properties of computeMetricsFromCounts, checked under SpecCounts.       *)
(***************************************************************************)
metrics == metricsCall.value

Sum4 == counts.tp + counts.tn + counts.fp + counts.fn

\* C4: computeMetricsFromCounts returns total = tp + tn + fp + fn, a
\* non-negative integer (0 for all-zero counts), and the input tp, tn, fp, fn
\* unchanged.
C4_Total ==
    (metricsCall.status = "returned") =>
        /\ metrics.total = Sum4
        /\ metrics.total \in Nat
        /\ metrics.tp = counts.tp
        /\ metrics.tn = counts.tn
        /\ metrics.fp = counts.fp
        /\ metrics.fn = counts.fn

C4_Witness ==
    /\ metricsCall.status = "returned"
    /\ counts = [tp |-> 1, tn |-> 2, fp |-> 3, fn |-> 4]
    /\ metrics.total = 10

\* a rate with denominator den: NaN when den is zero, otherwise in [0, 1]
RateInRange(rate, den) ==
    IF den = 0 THEN IsNaN(rate)
    ELSE IsRational(rate) /\ InUnitInterval(rate)

\* C5: every rate-type field (tpr, fnr, tnr, fpr, ppv, npv, prevalence,
\* accuracy, fdr, for, f1, ts) is NaN when its denominator is zero and
\* otherwise lies in [0, 1].
C5_RatesInUnitInterval ==
    (metricsCall.status = "returned") =>
        /\ RateInRange(metrics.tpr, counts.tp + counts.fn)
        /\ RateInRange(metrics.fnr, counts.tp + counts.fn)
        /\ RateInRange(metrics.tnr, counts.tn + counts.fp)
        /\ RateInRange(metrics.fpr, counts.tn + counts.fp)
        /\ RateInRange(metrics.ppv, counts.tp + counts.fp)
        /\ RateInRange(metrics.fdr, counts.tp + counts.fp)
        /\ RateInRange(metrics.npv, counts.tn + counts.fn)
        /\ RateInRange(metrics.for, counts.tn + counts.fn)
        /\ RateInRange(metrics.prevalence, Sum4)
        /\ RateInRange(metrics.accuracy, Sum4)
        /\ RateInRange(metrics.f1, 2 * counts.tp + counts.fp + counts.fn)
        /\ RateInRange(metrics.ts, counts.tp + counts.fp + counts.fn)

C5_Witness ==
    /\ metricsCall.status = "returned"
    /\ counts.tp + counts.fn > 0
    /\ counts.tn + counts.fp > 0
    /\ metrics.tpr = Rat(1, 3)
    /\ metrics.tnr = Rat(2, 5)
    /\ metrics.ppv = Rat(1, 4)
    /\ metrics.npv = Rat(1, 2)
    /\ metrics.accuracy = Rat(3, 8)

\* a safe-division field: NaN iff den is zero, otherwise num/den
SafeRatio(field, num, den) ==
    IF den = 0 THEN IsNaN(field) ELSE field = Rat(num, den)

DerivedFields ==
    <<metrics.prevalence, metrics.tpr, metrics.fpr, metrics.fnr, metrics.tnr, metrics.ppv, metrics.npv, metrics.lrPlus,
      metrics.lrMinus, metrics.accuracy, metrics.fdr, metrics.for, metrics.markedness, metrics.dor,
      metrics.balancedAccuracy, metrics.f1, metrics.fm, metrics.mcc, metrics.ts>>

\* C6: computeMetricsFromCounts never throws; a ratio with a zero denominator
\* is NaN and otherwise numerator/denominator; lrPlus is NaN, not Infinity,
\* when fpr is 0; NaN propagates to fdr, for, markedness and balancedAccuracy;
\* all-zero counts give total 0 and NaN in every derived field.
C6_SafeDivision ==
    /\ metricsCall.status # "threw"
    /\ (metricsCall.status = "returned") =>
        /\ SafeRatio(metrics.tpr, counts.tp, counts.tp + counts.fn)
        /\ SafeRatio(metrics.fnr, counts.fn, counts.tp + counts.fn)
        /\ SafeRatio(metrics.tnr, counts.tn, counts.tn + counts.fp)
        /\ SafeRatio(metrics.fpr, counts.fp, counts.tn + counts.fp)
        /\ SafeRatio(metrics.ppv, counts.tp, counts.tp + counts.fp)
        /\ SafeRatio(metrics.npv, counts.tn, counts.tn + counts.fn)
        /\ SafeRatio(metrics.prevalence, counts.tp + counts.fn, Sum4)
        /\ SafeRatio(metrics.accuracy, counts.tp + counts.tn, Sum4)
        /\ SafeRatio(metrics.f1, 2 * counts.tp, 2 * counts.tp + counts.fp + counts.fn)
        /\ SafeRatio(metrics.ts, counts.tp, counts.tp + counts.fp + counts.fn)
        /\ SafeRatio(metrics.dor, counts.tp * counts.tn, counts.fp * counts.fn)
        /\ IsZero(metrics.fpr) => IsNaN(metrics.lrPlus)
        /\ \A i \in DOMAIN DerivedFields : ~IsInfinite(DerivedFields[i])
        /\ IsNaN(metrics.fdr) <=> IsNaN(metrics.ppv)
        /\ IsNaN(metrics.for) <=> IsNaN(metrics.npv)
        /\ (IsNaN(metrics.ppv) \/ IsNaN(metrics.npv)) => IsNaN(metrics.markedness)
        /\ (IsNaN(metrics.tpr) \/ IsNaN(metrics.tnr)) => IsNaN(metrics.balancedAccuracy)
        /\ (counts = NoCounts) =>
              /\ metrics.total = 0
              /\ \A i \in DOMAIN DerivedFields : IsNaN(DerivedFields[i])

C6_Witness ==
    /\ metricsCall.status = "returned"
    /\ counts.tp > 0
    /\ counts.tn > 0
    /\ counts.fn > 0
    /\ counts.fp = 0
    /\ IsZero(metrics.fpr)
    /\ IsNaN(metrics.lrPlus)
    /\ IsNaN(metrics.dor)

\* C7: tpr + fnr = 1 whenever tp + fn > 0, and tnr + fpr = 1 whenever
\* tn + fp > 0 (in exact arithmetic).
C7_ComplementaryRates ==
    (metricsCall.status = "returned") =>
        /\ (counts.tp + counts.fn > 0) => (Add(metrics.tpr, metrics.fnr) = Num(1))
        /\ (counts.tn + counts.fp > 0) => (Add(metrics.tnr, metrics.fpr) = Num(1))

C7_Witness ==
    /\ metricsCall.status = "returned"
    /\ metrics.tpr = Rat(2, 3)
    /\ metrics.fnr = Rat(1, 3)
    /\ metrics.tnr = Rat(1, 4)
    /\ metrics.fpr = Rat(3, 4)

\* the safe-division quotient of the returned lrPlus by the returned lrMinus
LrQuotient == divide(metrics.lrPlus, metrics.lrMinus)

\* C9 as stated: dor always agrees with divide(lrPlus, lrMinus): both NaN or
\* both the same number.
C9_Original ==
    (metricsCall.status = "returned") => (metrics.dor = LrQuotient)

\* C9, amended: dor agrees with divide(lrPlus, lrMinus) whenever tn > 0 or
\* fp * fn = 0; when tn = 0 and fp > 0 and fn > 0, dor is 0 while
\* divide(lrPlus, lrMinus) is NaN (lrMinus is NaN because tnr is 0).
C9_DorIsLrQuotient ==
    (metricsCall.status = "returned") =>
        /\ (counts.tn > 0 \/ counts.fp * counts.fn = 0) => (metrics.dor = LrQuotient)
        /\ (counts.tn = 0 /\ counts.fp > 0 /\ counts.fn > 0) =>
              (metrics.dor = Num(0) /\ IsNaN(metrics.lrMinus) /\ IsNaN(LrQuotient))

C9_Witness ==
    /\ metricsCall.status = "returned"
    /\ counts = [tp |-> 3, tn |-> 2, fp |-> 1, fn |-> 4]
    /\ metrics.dor = Rat(3, 2)
    /\ LrQuotient = Rat(3, 2)

MccRadicand ==
    (counts.tp + counts.fp) * (counts.tp + counts.fn)
        * (counts.tn + counts.fp) * (counts.tn + counts.fn)

MccNumerator == counts.tp * counts.tn - counts.fp * counts.fn

\* C10: mcc is NaN exactly when one of tp+fp, tp+fn, tn+fp, tn+fn is zero and
\* otherwise lies in [-1, 1], that is (tp*tn - fp*fn)^2 <= the product of the
\* four sums; it is 1 only when fp = fn = 0 and -1 only when tp = tn = 0.
C10_MccRange ==
    (metricsCall.status = "returned") =>
        /\ IsNaN(metrics.mcc) <=>
              \/ counts.tp + counts.fp = 0
              \/ counts.tp + counts.fn = 0
              \/ counts.tn + counts.fp = 0
              \/ counts.tn + counts.fn = 0
        /\ ~IsNaN(metrics.mcc) =>
              /\ IsFinite(metrics.mcc)
              /\ AbsAtMostOne(metrics.mcc)
              /\ MccNumerator * MccNumerator <= MccRadicand
        /\ (metrics.mcc = Num(1)) => (counts.fp = 0 /\ counts.fn = 0)
        /\ (metrics.mcc = Num(0 - 1)) => (counts.tp = 0 /\ counts.tn = 0)

C10_Witness ==
    /\ metricsCall.status = "returned"
    /\ IsFinite(metrics.mcc)
    /\ ~IsRational(metrics.mcc)
    /\ metrics.mcc.n < 0
    /\ counts.tp > 0
    /\ counts.tn > 0

====
